---- MODULE Spec2Model ----
(***************************************************************************)
(* Conjunction screening of DuoShield: the time-grid scan of               *)
(* backend-only/orbit.py (screen_conjunctions) and the collision-          *)
(* probability pipeline of backend/probability.py.                         *)
(*                                                                         *)
(* Numbers.  The program computes in IEEE doubles; the model computes in   *)
(* integers.  Positions are metres, velocities metres per second, and the  *)
(* inputs are chosen so that every norm the scan takes is an exact         *)
(* integer.  Inside the probability estimator quantities are fixed-point   *)
(* with ONE = 1.0 (lengths in km, as in the source); products are taken    *)
(* exactly and rounded down, square roots carry about four digits.         *)
(* np.inf, np.nan and None are the sentinels Inf, NaN and None.            *)
(* Seconds of the window and the step are counted in half seconds so that  *)
(* non-integer and sub-second values exist (window2 = 3 is 1.5 s).         *)
(***************************************************************************)
EXTENDS Integers, Sequences, FiniteSets, TLC

(* ------------------------------ bounds --------------------------------- *)
MaxCatalogLen == 2
MaxNow == 1
MaxPcSample == 1100
MaxSpeed == 12

(* ----------------------------- sentinels ------------------------------- *)
Inf == 2147483647
NaN == -2147483647
None == -1

(* fixed-point unit of the estimator: 1.0 *)
ONE == 10 * 1000 * 1000

(* ------------------------- integer arithmetic -------------------------- *)
Abs(x) == IF x < 0 THEN -x ELSE x
Sgn(x) == IF x < 0 THEN -1 ELSE 1
Max2(a, b) == IF b > a THEN b ELSE a
Min2(a, b) == IF b < a THEN b ELSE a

RECURSIVE SqrtSearch(_, _, _)
SqrtSearch(n, lo, hi) ==
    IF lo >= hi THEN lo
    ELSE LET mid == (lo + hi + 1) \div 2
         IN  IF mid * mid <= n THEN SqrtSearch(n, mid, hi)
             ELSE SqrtSearch(n, lo, mid - 1)

(* floor of the square root of n, 0 <= n < 2^31 *)
ISqrt(n) == SqrtSearch(n, 0, 46340)

(* <<q, r>> with a*b = q*c + r and 0 <= r < c, for a, b >= 0 and c > 0,     *)
(* by doubling on b so that no intermediate leaves 32 bits                 *)
RECURSIVE MulDivQR(_, _, _)
MulDivQR(a, b, c) ==
    IF b = 0 THEN <<0, 0>>
    ELSE LET h == MulDivQR(a, b \div 2, c)
             t == 2 * h[2] + (b % 2) * (a % c)
         IN  <<2 * h[1] + (b % 2) * (a \div c) + t \div c, t % c>>

(* a*b/c rounded toward zero, signs respected *)
MulDiv(a, b, c) ==
    Sgn(a) * Sgn(b) * Sgn(c) * MulDivQR(Abs(a), Abs(b), Abs(c))[1]

(* a*b/ONE for a, b >= 0, rounded down: the operands split at 10^4 so that *)
(* no partial product leaves 32 bits                                       *)
FMulNat(a, b) ==
    LET a1 == a \div 10000
        a0 == a % 10000
        b1 == b \div 10000
        b0 == b % 10000
    IN  a1 * b1 * 10 + (a1 * b0 + a0 * b1 + (a0 * b0) \div 10000) \div 1000

(* product and quotient of fixed-point numbers, rounded toward zero *)
FMul(a, b) == Sgn(a) * Sgn(b) * FMulNat(Abs(a), Abs(b))
FDiv(a, b) == MulDiv(a, ONE, b)
(* square root of a fixed-point number x >= 0: an integer square root for   *)
(* the leading digits, then one Newton step                                *)
NewtonStep(x, s0) == IF s0 = 0 THEN 0 ELSE (s0 + MulDiv(x, ONE, s0)) \div 2
FSqrt(x) ==
    NewtonStep(x, IF x <= 200000000 THEN ISqrt(x * 10) * 1000
                  ELSE ISqrt(x \div 10) * 10000)

(* ------------------------------ vectors -------------------------------- *)
Sub3(a, b) == <<a[1] - b[1], a[2] - b[2], a[3] - b[3]>>
(* np.linalg.norm of an integer vector (metres or m/s) *)
Norm3(a) == ISqrt(a[1] * a[1] + a[2] * a[2] + a[3] * a[3])

NaN3 == <<NaN, NaN, NaN>>
FDot3(a, b) == FMul(a[1], b[1]) + FMul(a[2], b[2]) + FMul(a[3], b[3])
FCross3(a, b) ==
    << FMul(a[2], b[3]) - FMul(a[3], b[2]),
       FMul(a[3], b[1]) - FMul(a[1], b[3]),
       FMul(a[1], b[2]) - FMul(a[2], b[1]) >>
FNorm3(a) == FSqrt(FDot3(a, a))
(* a / n *)
Scale3(a, n) == <<FDiv(a[1], n), FDiv(a[2], n), FDiv(a[3], n)>>
FUnit3(a) == Scale3(a, FNorm3(a))

(* ---------------------- probability.py: estimator ---------------------- *)
(* e^-n for n = 1..16 in units of 1/ONE; e^-17 and below round to 0 *)
ExpTable ==
    << 3678794, 1353353, 497871, 183156, 67379, 24788, 9119, 3355,
       1234, 454, 167, 61, 23, 8, 3, 1 >>

RECURSIVE ExpTerms(_, _, _)
(* the terms (-f)^k/k!, k, k+1, ... of the series of e^-f, given f^(k-1)/(k-1)! *)
ExpTerms(f, prev, k) ==
    LET t == FMul(prev, f) \div k
    IN  IF t = 0 THEN 0
        ELSE (IF k % 2 = 1 THEN -t ELSE t) + ExpTerms(f, t, k + 1)

(* np.exp(a) for a <= 0 *)
NpExp(a) ==
    LET x == -a
        n == x \div ONE
        f == x % ONE
    IN  IF n > Len(ExpTable) THEN 0
        ELSE FMul(IF n = 0 THEN ONE ELSE ExpTable[n], ONE + ExpTerms(f, ONE, 1))

HasNaN3(a) == a[1] = NaN \/ a[2] = NaN \/ a[3] = NaN

(* line 24: v_rel / n *)
UnitOfVelocity(v_rel, n) ==
    <<MulDiv(v_rel[1], ONE, n), MulDiv(v_rel[2], ONE, n), MulDiv(v_rel[3], ONE, n)>>

(* a variant that keeps the Z axis up to 0.99 *)
ReferenceAxisLate(u_hat) ==
    IF Abs(u_hat[3]) < 99 * (ONE \div 100) THEN <<0, 0, ONE>> ELSE <<ONE, 0, 0>>

(* lines 28-31: the axis u_hat is crossed with *)
ReferenceAxis(u_hat) ==
    IF Abs(u_hat[3]) < 9 * (ONE \div 10) THEN <<0, 0, ONE>> ELSE <<ONE, 0, 0>>

(* lines 35-38: e2 completes the basis *)
PlaneFromE1(u_hat, e1) ==
    [u_hat |-> u_hat, e1 |-> e1, e2 |-> FUnit3(FCross3(u_hat, e1))]

(* lines 28-38 *)
PlaneFromUHat(u_hat) ==
    PlaneFromE1(u_hat, FUnit3(FCross3(u_hat, ReferenceAxis(u_hat))))

(* compute_encounter_plane: u_hat, e1, e2 from the relative velocity (m/s). *)
(* A zero velocity divides 0 by 0: numpy warns and yields NaN, and every    *)
(* later component is NaN as well (abs(nan) < 0.9 is False).               *)
compute_encounter_plane(r_rel, v_rel) ==
    IF Norm3(v_rel) = 0 THEN [u_hat |-> NaN3, e1 |-> NaN3, e2 |-> NaN3]
    ELSE PlaneFromUHat(UnitOfVelocity(v_rel, Norm3(v_rel)))

(* project_to_encounter_plane: [e1 . r, e2 . r] (km) *)
project_to_encounter_plane(r_rel_km, e1, e2) ==
    IF HasNaN3(e1) \/ HasNaN3(e2) THEN <<NaN, NaN>>
    ELSE <<FDot3(e1, r_rel_km), FDot3(e2, r_rel_km)>>

(* E @ P_rel[:3, :3] @ E.T for E = [e1, e2] *)
project_covariance(e1, e2, P) ==
    IF HasNaN3(e1) \/ HasNaN3(e2) THEN <<<<NaN, NaN>>, <<NaN, NaN>>>>
    ELSE
      LET E == <<e1, e2>>
          M == [i \in 1..2 |-> [l \in 1..3 |->
                  FMul(E[i][1], P[1][l]) + FMul(E[i][2], P[2][l])
                  + FMul(E[i][3], P[3][l])]]
          Q == [i \in 1..2 |-> [j \in 1..2 |->
                  FMul(M[i][1], E[j][1]) + FMul(M[i][2], E[j][2])
                  + FMul(M[i][3], E[j][3])]]
      IN  <<<<Q[1][1], Q[1][2]>>, <<Q[2][1], Q[2][2]>>>>

Det2(P) == FMul(P[1][1], P[2][2]) - FMul(P[1][2], P[2][1])

(* np.any(np.linalg.eigvals(P) <= 0) for a symmetric 2x2 matrix *)
AnyEigenvalueNonPositive(P) == ~ (P[1][1] + P[2][2] > 0 /\ Det2(P) > 0)

(* np.linalg.cholesky of a 2x2 matrix (lower triangle read), column by     *)
(* column; ok = FALSE is LinAlgError: matrix not positive definite         *)
CholeskyLast(L11, L21, s) ==
    IF s <= 0 THEN [ok |-> FALSE]
    ELSE [ok |-> TRUE, L11 |-> L11, L21 |-> L21, L22 |-> FSqrt(s)]
CholeskyRow2(P, L11, L21) == CholeskyLast(L11, L21, P[2][2] - FMul(L21, L21))
CholeskyColumn1(P, L11) == CholeskyRow2(P, L11, FDiv(P[2][1], L11))
Cholesky2(P) ==
    IF P[1][1] <= 0 THEN [ok |-> FALSE] ELSE CholeskyColumn1(P, FSqrt(P[1][1]))

(* line 79: np.linalg.solve(L, mu_2d) for the lower triangular L *)
SolveRow2(L, mu_2d, y1) == <<y1, FDiv(mu_2d[2] - FMul(L.L21, y1), L.L22)>>
Solve2(L, mu_2d) == SolveRow2(L, mu_2d, FDiv(mu_2d[1], L.L11))

(* line 82: np.linalg.norm of a pair *)
FNorm2(y) == FSqrt(FMul(y[1], y[1]) + FMul(y[2], y[2]))

(* line 87: the mean at the origin *)
MeanAtOrigin(hbr_km, det) ==
    ONE - NpExp(-(FDiv(FMul(hbr_km, hbr_km), det) \div 2))

(* lines 93-98, given 0.5 * r_norm**2 *)
MeanInOrOut(d_mahal, r_norm, hr2) ==
    IF d_mahal < r_norm
    THEN ONE - FMul(NpExp(-hr2), ONE + hr2)
    ELSE FMul(NpExp(-(FMul(d_mahal - r_norm, d_mahal - r_norm) \div 2)),
              ONE - NpExp(-hr2))

(* lines 90-98, given r_norm *)
GeneralCase(d_mahal, r_norm) ==
    MeanInOrOut(d_mahal, r_norm, FMul(r_norm, r_norm) \div 2)

(* lines 85-98: the three branches of the closed-form surrogate, before    *)
(* the clamp                                                               *)
ChanAlfriend(d_mahal, hbr_km, det) ==
    IF d_mahal = 0 THEN MeanAtOrigin(hbr_km, det)
    ELSE GeneralCase(d_mahal, FDiv(hbr_km, FSqrt(det)))

(* max(0.0, min(1.0, Pc)) *)
Clamp01(Pc) == Max2(0, Min2(ONE, Pc))

(* lines 71-73: the covariance after the regularisation *)
Regularized(P_2d) ==
    IF AnyEigenvalueNonPositive(P_2d)
    THEN <<<<P_2d[1][1] + ONE \div 1000000, P_2d[1][2]>>,
           <<P_2d[2][1], P_2d[2][2] + ONE \div 1000000>>>>
    ELSE P_2d

(* lines 76-98, given the factor L or its failure *)
AfterCholesky(mu_2d, hbr_km, P, L) ==
    IF ~ L.ok THEN [raised |-> TRUE]
    ELSE [raised |-> FALSE,
          Pc |-> ChanAlfriend(FNorm2(Solve2(L, mu_2d)), hbr_km, Det2(P))]

(* lines 66-98, the body of the try: raised = TRUE is an exception         *)
(* (np.linalg.eigvals refuses a matrix holding NaN, np.linalg.cholesky one *)
(* that is not positive definite), else Pc is the value before the clamp   *)
ProbabilityBody(mu_2d, P_2d, hbr_m) ==
    IF \E i, j \in 1..2 : P_2d[i][j] = NaN THEN [raised |-> TRUE]
    ELSE AfterCholesky(mu_2d, hbr_m * (ONE \div 1000), Regularized(P_2d),
                       Cholesky2(Regularized(P_2d)))

(* line 100 for a value, a sentinel -1.0 for an exception *)
ClampOrSentinel(t) == IF t.raised THEN -ONE ELSE Clamp01(t.Pc)

(* line 100 for a value, lines 102-104 for an exception *)
ClampOrZero(t) == IF t.raised THEN 0 ELSE Clamp01(t.Pc)

(* a variant whose except branch returns the sentinel -1.0 *)
compute_2d_collision_probability_sentinel(mu_2d, P_2d, hbr_m) ==
    ClampOrSentinel(ProbabilityBody(mu_2d, P_2d, hbr_m))

(* compute_2d_collision_probability: the clamped value, and 0.0 from the   *)
(* except branch, which catches every exception of the body                *)
compute_2d_collision_probability(mu_2d, P_2d, hbr_m) ==
    ClampOrZero(ProbabilityBody(mu_2d, P_2d, hbr_m))

(* ------------------------------- names --------------------------------- *)
(* a name is a sequence of characters; str.upper() maps the letters *)
LowerLetters ==
    <<"a", "b", "c", "d", "e", "f", "g", "h", "i", "j", "k", "l", "m",
      "n", "o", "p", "q", "r", "s", "t", "u", "v", "w", "x", "y", "z">>
UpperLetters ==
    <<"A", "B", "C", "D", "E", "F", "G", "H", "I", "J", "K", "L", "M",
      "N", "O", "P", "Q", "R", "S", "T", "U", "V", "W", "X", "Y", "Z">>
Upper(c) ==
    IF \E i \in 1..26 : LowerLetters[i] = c
    THEN UpperLetters[CHOOSE i \in 1..26 : LowerLetters[i] = c]
    ELSE c
UpperStr(s) == [i \in 1..Len(s) |-> Upper(s[i])]

(* keyword in name *)
Contains(kw, s) ==
    \E i \in 0..(Len(s) - Len(kw)) : \A j \in 1..Len(kw) : s[i + j] = kw[j]

StationKeywords ==
    { <<"I", "S", "S">>,
      <<"S", "P", "A", "C", "E", " ", "S", "T", "A", "T", "I", "O", "N">>,
      <<"T", "I", "A", "N", "G", "O", "N", "G">> }
ConstellationKeywords ==
    { <<"S", "T", "A", "R", "L", "I", "N", "K">>,
      <<"O", "N", "E", "W", "E", "B">>,
      <<"K", "E", "P", "L", "E", "R">> }

(* a variant testing the constellation keywords first *)
BodyRadiusConstellationFirst(name) ==
    IF \E kw \in ConstellationKeywords : Contains(kw, UpperStr(name)) THEN 3
    ELSE IF \E kw \in StationKeywords : Contains(kw, UpperStr(name)) THEN 50
    ELSE 5

(* the radius (m) estimate_hard_body_radius gives one name *)
BodyRadius(name) ==
    IF \E kw \in StationKeywords : Contains(kw, UpperStr(name)) THEN 50
    ELSE IF \E kw \in ConstellationKeywords : Contains(kw, UpperStr(name)) THEN 3
    ELSE 5

estimate_hard_body_radius(sat1_name, sat2_name) ==
    BodyRadius(sat1_name) + BodyRadius(sat2_name)

(* ----------------- probability.py: analysis and advice ----------------- *)
(* the thresholds 1e-4, 1e-5, 1e-6 *)
PcCritical == ONE \div 10000
PcHigh == ONE \div 100000
PcMedium == ONE \div 1000000

(* a variant comparing with >= *)
SafetyLevelInclusive(pc_2d) ==
    IF pc_2d >= PcCritical THEN "CRITICAL"
    ELSE IF pc_2d >= PcHigh THEN "HIGH"
    ELSE IF pc_2d >= PcMedium THEN "MEDIUM"
    ELSE "LOW"

(* the safety assessment of compute_collision_probability_analysis *)
SafetyLevel(pc_2d) ==
    IF pc_2d > PcCritical THEN "CRITICAL"
    ELSE IF pc_2d > PcHigh THEN "HIGH"
    ELSE IF pc_2d > PcMedium THEN "MEDIUM"
    ELSE "LOW"

(* metres to fixed-point km *)
Km(m) == m * (ONE \div 1000)
Km3(a) == <<Km(a[1]), Km(a[2]), Km(a[3])>>

(* the position block of the default covariance: sigma_pos^2 on the diagonal *)
DefaultPositionCovariance(d_min) ==
    LET sigma_pos == Max2(ONE \div 10, Km(d_min) \div 10)
        s2        == FMul(sigma_pos, sigma_pos)
    IN  <<<<s2, 0, 0>>, <<0, s2, 0>>, <<0, 0, s2>>>>

(* lines 189-247: the record returned *)
AnalysisResult(d_min, v_rel_mag, hbr_m, mu_2d, P_2d, pc_2d) ==
    [ min_distance_km      |-> d_min,
      relative_speed_km_s  |-> v_rel_mag,
      hbr_meters           |-> hbr_m,
      collision_probability |->
          [ pc_2d |-> pc_2d,
            encounter_plane |-> [mu_2d |-> mu_2d, P_2d |-> P_2d] ],
      safety_level         |-> SafetyLevel(pc_2d) ]

(* lines 228-247 *)
AnalysisOfProjection(d_min, v_rel_mag, hbr_m, mu_2d, P_2d) ==
    AnalysisResult(d_min, v_rel_mag, hbr_m, mu_2d, P_2d,
                   compute_2d_collision_probability(mu_2d, P_2d, hbr_m))

(* lines 206-247 *)
AnalysisOfPlane(r_rel, d_min, v_rel_mag, hbr_m, ep) ==
    AnalysisOfProjection(d_min, v_rel_mag, hbr_m,
        project_to_encounter_plane(Km3(r_rel), ep.e1, ep.e2),
        project_covariance(ep.e1, ep.e2, DefaultPositionCovariance(d_min)))

(* compute_collision_probability_analysis with P_rel = None, the only way   *)
(* the scan calls it.  r_rel in metres, v_rel in m/s.  No statement of      *)
(* either try block raises on array inputs (a division by zero is a NaN),  *)
(* so the error records of lines 179-187 and 249-252 are never built; the  *)
(* Mahalanobis diagnostic and the always-None pc_3d, pc_mc are left out.   *)
compute_collision_probability_analysis(r_rel, v_rel, sat1_name, sat2_name) ==
    AnalysisOfPlane(r_rel, Norm3(r_rel), Norm3(v_rel),
                    estimate_hard_body_radius(sat1_name, sat2_name),
                    compute_encounter_plane(r_rel, v_rel))

(* a variant comparing with >= *)
generate_maneuver_suggestions_inclusive(r_rel, v_rel, pc_2d, tca_utc) ==
    IF pc_2d >= PcCritical THEN
        << [ type |-> "out_of_plane_maneuver", timing |-> "30 minutes before TCA",
             delta_v_estimate |-> "0.5-1.5 m/s", priority |-> "CRITICAL",
             fuel_cost |-> "Low", expected_effectiveness |-> "High" ] >>
    ELSE IF pc_2d >= PcHigh THEN
        << [ type |-> "along_track_maneuver", timing |-> "1-2 hours before TCA",
             delta_v_estimate |-> "0.2-0.8 m/s", priority |-> "HIGH",
             fuel_cost |-> "Very Low", expected_effectiveness |-> "Medium" ] >>
    ELSE IF pc_2d >= PcMedium THEN
        << [ type |-> "monitor", timing |-> "Continuous",
             delta_v_estimate |-> "0 m/s", priority |-> "MEDIUM",
             fuel_cost |-> "None", expected_effectiveness |-> "N/A" ] >>
    ELSE << >>

(* generate_maneuver_suggestions: the list of suggestions; the texts        *)
(* description, direction and reason of a suggestion are left out          *)
generate_maneuver_suggestions(r_rel, v_rel, pc_2d, tca_utc) ==
    IF pc_2d > PcCritical THEN
        << [ type |-> "out_of_plane_maneuver", timing |-> "30 minutes before TCA",
             delta_v_estimate |-> "0.5-1.5 m/s", priority |-> "CRITICAL",
             fuel_cost |-> "Low", expected_effectiveness |-> "High" ] >>
    ELSE IF pc_2d > PcHigh THEN
        << [ type |-> "along_track_maneuver", timing |-> "1-2 hours before TCA",
             delta_v_estimate |-> "0.2-0.8 m/s", priority |-> "HIGH",
             fuel_cost |-> "Very Low", expected_effectiveness |-> "Medium" ] >>
    ELSE IF pc_2d > PcMedium THEN
        << [ type |-> "monitor", timing |-> "Continuous",
             delta_v_estimate |-> "0 m/s", priority |-> "MEDIUM",
             fuel_cost |-> "None", expected_effectiveness |-> "N/A" ] >>
    ELSE << >>

(* ------------------------- orbit.py: the scan -------------------------- *)
(* a variant that accepts any two lines *)
sat_from_tle_lenient(l1, l2) == [ok |-> TRUE]

(* Satrec.twoline2rv, by what makes it fail: a line without its prefix *)
sat_from_tle(l1, l2) == [ok |-> l1 = "1 " /\ l2 = "2 "]

(* range(start, stop, step) for step > 0 *)
RECURSIVE Range(_, _, _)
Range(start, stop, step) ==
    IF start >= stop THEN << >>
    ELSE <<start>> \o Range(start + step, stop, step)

(* int(x) of a non-negative number of half seconds *)
IntOfHalves(x2) == x2 \div 2

(* line 59: the offsets (s) of the samples; step 0 is range()'s ValueError *)
GridOffsets(w2, s2) == Range(0, IntOfHalves(w2) + 1, IntOfHalves(s2))
TimeGrid(t0, w2, s2) ==
    LET off == GridOffsets(w2, s2) IN [i \in 1..Len(off) |-> t0 + off[i]]

RECURSIVE SeqMin(_)
(* min(list) of a non-empty list *)
SeqMin(s) == IF Len(s) = 1 THEN s[1] ELSE Min2(s[1], SeqMin(Tail(s)))

(* dict.update *)
Update(d, e) ==
    [f \in (DOMAIN d) \cup (DOMAIN e) |-> IF f \in DOMAIN e THEN e[f] ELSE d[f]]

RECURSIVE InsertByDistanceBefore(_, _)
(* a variant placing e before the elements of equal key *)
InsertByDistanceBefore(e, s) ==
    IF s = << >> THEN <<e>>
    ELSE IF e.min_distance_km <= s[1].min_distance_km THEN <<e>> \o s
    ELSE <<s[1]>> \o InsertByDistanceBefore(e, Tail(s))

RECURSIVE InsertByDistance(_, _)
(* e placed behind every element whose key is not larger *)
InsertByDistance(e, s) ==
    IF s = << >> THEN <<e>>
    ELSE IF e.min_distance_km < s[1].min_distance_km THEN <<e>> \o s
    ELSE <<s[1]>> \o InsertByDistance(e, Tail(s))

RECURSIVE SortByDistance(_)
(* list.sort(key = min_distance_km): ascending and stable *)
SortByDistance(s) ==
    IF s = << >> THEN << >>
    ELSE InsertByDistance(s[Len(s)], SortByDistance(SubSeq(s, 1, Len(s) - 1)))

(* a variant that does not truncate *)
PrefixWhole(s, n) == s

(* catalog[:max_catalog] *)
Prefix(s, n) == SubSeq(s, 1, Min2(n, Len(s)))

(* ------------------------------ inputs --------------------------------- *)
NameSAT == <<"S", "A", "T">>
NameISS == <<"I", "S", "S">>
NameStarlink == <<"s", "t", "a", "r", "l", "i", "n", "k">>

PrimaryTLEs ==
    { [name |-> NameSAT, l1 |-> "1 ", l2 |-> "2 "],
      [name |-> NameSAT, l1 |-> "x ", l2 |-> "2 "] }
CatalogTLEs ==
    { [name |-> NameISS, l1 |-> "1 ", l2 |-> "2 "],
      [name |-> NameStarlink, l1 |-> "1 ", l2 |-> "2 "],
      [name |-> NameSAT, l1 |-> "1 ", l2 |-> "x "] }
Catalogs == UNION { [1..n -> CatalogTLEs] : n \in 0..MaxCatalogLen }
(* thresholds in metres: 3 km and 5 km *)
Thresholds == {3000, 5000}
(* <<window, step>> of the scans, in half seconds: 2 s by 1 s, 1 s by      *)
(* 1.5 s, 2 s by 0.5 s                                                     *)
ScanGrids == { <<4, 2>>, <<2, 3>>, <<4, 1>> }

(* what sgp4 answers: (e, r, v), e # 0 an error code.  The primary's state *)
(* and the candidates' states relative to it (metres, m/s).                *)
PrimaryState == [e |-> 0, r |-> <<7000000, 0, 0>>, v |-> <<0, 7500, 0>>]
SgpError == [e |-> 1, r |-> NaN3, v |-> NaN3]
Offsets ==
    { [dr |-> <<0, 0, 0>>,       dv |-> <<0, 0, 0>>],
      [dr |-> <<0, 0, 0>>,       dv |-> <<0, 0, 1000>>],
      [dr |-> <<540, 0, 0>>,     dv |-> <<0, 300, 400>>],
      [dr |-> <<1800, 2400, 0>>, dv |-> <<0, 0, 1000>>] }
PrimaryAnswers == {PrimaryState, SgpError}
CandidateAnswers ==
    { [e |-> 0, r |-> Sub3(PrimaryState.r, o.dr), v |-> Sub3(PrimaryState.v, o.dv)]
        : o \in Offsets } \cup {SgpError}

(* compute_collision_probability_analysis is a pure function: its value on  *)
(* every relative state and pair of names a scan can meet, computed once   *)
AnalysisArgs ==
    { <<o.dr, o.dv, p.name, c.name>> :
        o \in Offsets, p \in PrimaryTLEs, c \in CatalogTLEs }
AnalysisMemo ==
    [x \in AnalysisArgs |->
        compute_collision_probability_analysis(x[1], x[2], x[3], x[4])]

(* ------------------------------- state --------------------------------- *)
VARIABLES
    at,                 \* where the call of screen_conjunctions stands
    user_tle, catalog, window2, step2, threshold_km, max_catalog,
    include_collision_probability,              \* the arguments
    now, tgrid, user_r, user_v,                 \* lines 58-65
    idx, ephem, dmins, relspeeds, tca_idx,      \* the candidate under scan
    results,                                    \* the events so far
    pc_assessed, level_assessed,                \* a probability and its level
    advice_assessed,                            \* and the suggestions for it
    v_rel_assessed, plane_assessed,             \* a velocity and its basis
    names_assessed, hbr_assessed                \* two names and their radius

args == <<user_tle, catalog, window2, step2, threshold_km, max_catalog,
          include_collision_probability>>
cand == <<idx, ephem, dmins, relspeeds, tca_idx>>
assessed == <<pc_assessed, level_assessed, advice_assessed,
              v_rel_assessed, plane_assessed, names_assessed, hbr_assessed>>
vars == <<at, args, now, tgrid, user_r, user_v, cand, results, assessed>>

Init ==
    /\ at = "call"
    /\ user_tle \in PrimaryTLEs
    /\ catalog \in Catalogs
    /\ \E g \in ScanGrids : window2 = g[1] /\ step2 = g[2]
    /\ threshold_km \in Thresholds
    /\ max_catalog \in 1..MaxCatalogLen
    /\ include_collision_probability \in BOOLEAN
    /\ now = 0 /\ tgrid = << >> /\ user_r = << >> /\ user_v = << >>
    /\ idx = 0 /\ ephem = << >> /\ dmins = << >> /\ relspeeds = << >>
    /\ tca_idx = 0 /\ results = << >>
    /\ pc_assessed = None /\ level_assessed = "UNKNOWN"
    /\ advice_assessed = << >>
    /\ v_rel_assessed = <<0, 0, 0>> /\ plane_assessed = << >>
    /\ names_assessed = << >> /\ hbr_assessed = None

(* lines 58-59: read the clock, build the grid *)
BuildGrid ==
    /\ at = "call"
    /\ \E t \in 0..MaxNow :
          /\ now' = t
          /\ IF IntOfHalves(step2) = 0
             THEN at' = "raised" /\ tgrid' = tgrid
             ELSE at' = "primary" /\ tgrid' = TimeGrid(t, window2, step2)
    /\ UNCHANGED <<args, user_r, user_v, cand, results, assessed>>

(* lines 60-65: the primary's propagator, then one sample of the primary   *)
(* per step; neither is inside a try                                       *)
ConstructPrimary ==
    /\ at = "primary"
    /\ at' = IF sat_from_tle(user_tle.l1, user_tle.l2).ok
             THEN "primary_samples" ELSE "raised"
    /\ UNCHANGED <<args, now, tgrid, user_r, user_v, cand, results, assessed>>

PropagatePrimary ==
    /\ at = "primary_samples"
    /\ Len(user_r) < Len(tgrid)
    /\ \E a \in PrimaryAnswers :
          IF a.e # 0
          THEN at' = "raised" /\ UNCHANGED <<user_r, user_v>>
          ELSE /\ user_r' = Append(user_r, a.r)
               /\ user_v' = Append(user_v, a.v)
               /\ at' = at
    /\ UNCHANGED <<args, now, tgrid, cand, results, assessed>>

PrimaryDone ==
    /\ at = "primary_samples"
    /\ Len(user_r) = Len(tgrid)
    /\ at' = "catalog"
    /\ UNCHANGED <<args, now, tgrid, user_r, user_v, cand, results, assessed>>

(* a variant without the try around the construction *)
NextCandidateUnguarded ==
    /\ at = "catalog"
    /\ idx < Len(Prefix(catalog, max_catalog))
    /\ at' = IF sat_from_tle(catalog[idx + 1].l1, catalog[idx + 1].l2).ok
             THEN "samples" ELSE "raised"
    /\ idx' = idx
    /\ ephem' = << >> /\ dmins' = << >> /\ relspeeds' = << >> /\ tca_idx' = 0
    /\ UNCHANGED <<args, now, tgrid, user_r, user_v, results, assessed>>

(* lines 68-73: the next catalog object; a failed construction skips it *)
NextCandidate ==
    /\ at = "catalog"
    /\ idx < Len(Prefix(catalog, max_catalog))
    /\ LET tle == catalog[idx + 1] IN
       IF sat_from_tle(tle.l1, tle.l2).ok
       THEN /\ at' = "samples"
            /\ idx' = idx
       ELSE /\ at' = "catalog"
            /\ idx' = idx + 1
    /\ ephem' = << >> /\ dmins' = << >> /\ relspeeds' = << >> /\ tca_idx' = 0
    /\ UNCHANGED <<args, now, tgrid, user_r, user_v, results, assessed>>

(* a variant comparing with <= *)
PromotedInclusive(dmin, threshold) == dmin <= threshold

(* line 85: the candidate becomes an event *)
Promoted(dmin, threshold) == dmin < threshold

(* a variant recording a failed sample as distance 0 *)
FailedSampleZero == [d |-> 0, relspeed |-> NaN]

(* line 78: what a failed sample appends to dmins and relspeeds *)
FailedSample == [d |-> Inf, relspeed |-> NaN]

(* a variant comparing with < *)
UpdateTcaStrict(best, k, d, ds) == IF d < ds[best + 1] THEN k ELSE best

(* a variant that always takes the sample just recorded *)
UpdateTcaLatest(best, k, d, ds) == k

(* what line 83 does to tca_idx after sample k of distance d is recorded *)
UpdateTca(best, k, d, ds) == IF d <= ds[best + 1] THEN k ELSE best

(* lines 74-83: one sample of the candidate *)
SampleCandidate ==
    /\ at = "samples"
    /\ Len(dmins) < Len(tgrid)
    /\ \E a \in CandidateAnswers :
          LET k == Len(dmins) IN
          /\ ephem' = Append(ephem, a)
          /\ IF a.e # 0
             THEN /\ dmins' = Append(dmins, FailedSample.d)
                  /\ relspeeds' = Append(relspeeds, FailedSample.relspeed)
                  /\ tca_idx' = tca_idx
             ELSE LET dr == Sub3(user_r[k + 1], a.r)
                      dv == Sub3(user_v[k + 1], a.v)
                      d  == Norm3(dr)
                  IN  /\ dmins' = Append(dmins, d)
                      /\ relspeeds' = Append(relspeeds, Norm3(dv))
                      /\ tca_idx' = UpdateTca(tca_idx, k, d, Append(dmins, d))
    /\ UNCHANGED <<at, args, now, tgrid, user_r, user_v, idx, results, assessed>>

(* lines 94-100 *)
BasicEvent(tle, i, dmin, tca_time, relspeed) ==
    [ other_name      |-> tle.name,
      min_distance_km |-> dmin,
      tca_utc         |-> tca_time,
      rel_speed_km_s  |-> relspeed,
      catalog_index   |-> i ]

(* lines 111-114 *)
WithSuggestions(result, r_rel, v_rel, tca_time) ==
    IF /\ "collision_probability" \in DOMAIN result
       /\ "pc_2d" \in DOMAIN result.collision_probability
       /\ result.collision_probability.pc_2d # None
    THEN Update(result,
                [maneuver_suggestions |->
                    generate_maneuver_suggestions(r_rel, v_rel,
                        result.collision_probability.pc_2d, tca_time)])
    ELSE result

(* lines 94-121: the event of a promoted candidate whose state at the       *)
(* closest approach was propagated again                                   *)
Event(tle, i, dmin, tca_time, relspeed, r_rel, v_rel) ==
    IF ~ include_collision_probability
    THEN BasicEvent(tle, i, dmin, tca_time, relspeed)
    ELSE WithSuggestions(
            Update(BasicEvent(tle, i, dmin, tca_time, relspeed),
                   AnalysisMemo[<<r_rel, v_rel, user_tle.name, tle.name>>]),
            r_rel, v_rel, tca_time)

(* lines 123-133: the event appended when that propagation raised *)
FallbackEvent(tle, i, dmin, tca_time, relspeed) ==
    [ other_name      |-> tle.name,
      min_distance_km |-> dmin,
      tca_utc         |-> tca_time,
      rel_speed_km_s  |-> relspeed,
      catalog_index   |-> i,
      collision_probability |-> [error |-> "SGP4 error code"] ]

(* lines 84-133: the candidate's samples are complete.  The propagation at  *)
(* the closest approach asks the collaborator again: it answers as it did  *)
(* during the scan, or with an error.  The iteration ends here: its locals *)
(* are dead until line 73 binds them again, and are shown cleared.         *)
FinishCandidate ==
    /\ at = "samples"
    /\ Len(dmins) = Len(tgrid)
    /\ LET dmin     == SeqMin(dmins)
           tle      == catalog[idx + 1]
           tca_time == tgrid[tca_idx + 1]
           a2       == ephem[tca_idx + 1]
       IN  IF Promoted(dmin, threshold_km)
           THEN \E again \in {a2, SgpError} :
                    IF a2.e # 0 \/ again.e # 0
                    THEN results' = Append(results,
                            FallbackEvent(tle, idx, dmin, tca_time,
                                          relspeeds[tca_idx + 1]))
                    ELSE results' = Append(results,
                            Event(tle, idx, dmin, tca_time, relspeeds[tca_idx + 1],
                                  Sub3(user_r[tca_idx + 1], again.r),
                                  Sub3(user_v[tca_idx + 1], again.v)))
           ELSE results' = results
    /\ idx' = idx + 1
    /\ at' = "catalog"
    /\ ephem' = << >> /\ dmins' = << >> /\ relspeeds' = << >> /\ tca_idx' = 0
    /\ UNCHANGED <<args, now, tgrid, user_r, user_v, assessed>>

(* lines 135-136: the catalog is exhausted; sort and return *)
Return ==
    /\ at = "catalog"
    /\ idx = Len(Prefix(catalog, max_catalog))
    /\ results' = SortByDistance(results)
    /\ at' = "returned"
    /\ UNCHANGED <<args, now, tgrid, user_r, user_v, cand, assessed>>

Next ==
    \/ BuildGrid
    \/ ConstructPrimary
    \/ PropagatePrimary
    \/ PrimaryDone
    \/ NextCandidate
    \/ SampleCandidate
    \/ FinishCandidate
    \/ Return

Spec == Init /\ [][Next]_vars

(* ---------------- the safety assessment on its own --------------------- *)
(* probabilities up to 1.1e-4 in steps of 1e-7, one half and one *)
PcSamples == (0..MaxPcSample) \cup {ONE \div 2, ONE}

InitLevels ==
    /\ at = "assess"
    /\ pc_assessed \in PcSamples
    /\ level_assessed = "UNKNOWN"
    /\ advice_assessed = << >>
    /\ v_rel_assessed = <<0, 0, 0>> /\ plane_assessed = << >>
    /\ names_assessed = << >> /\ hbr_assessed = None
    /\ user_tle = [name |-> NameSAT, l1 |-> "1 ", l2 |-> "2 "]
    /\ catalog = << >>
    /\ window2 = 2 /\ step2 = 2 /\ threshold_km = 5000 /\ max_catalog = 1
    /\ include_collision_probability = TRUE
    /\ now = 0 /\ tgrid = << >> /\ user_r = << >> /\ user_v = << >>
    /\ idx = 0 /\ ephem = << >> /\ dmins = << >> /\ relspeeds = << >>
    /\ tca_idx = 0 /\ results = << >>

(* probability.py lines 239-247 and orbit.py lines 112-113 applied to a     *)
(* probability, for any relative state and closest-approach instant        *)
Assess ==
    /\ at = "assess"
    /\ level_assessed' = SafetyLevel(pc_assessed)
    /\ \E o \in Offsets, t \in 0..MaxNow :
          advice_assessed' =
              generate_maneuver_suggestions(o.dr, o.dv, pc_assessed, t)
    /\ at' = "assessed"
    /\ UNCHANGED <<args, now, tgrid, user_r, user_v, cand, results, pc_assessed,
                   v_rel_assessed, plane_assessed, names_assessed, hbr_assessed>>

SpecLevels == InitLevels /\ [][Assess]_vars

(* ---------------- the encounter plane on its own ---------------------- *)
(* the scan at rest, for the specifications of single functions *)
NoScan ==
    /\ user_tle = [name |-> NameSAT, l1 |-> "1 ", l2 |-> "2 "]
    /\ catalog = << >>
    /\ window2 = 2 /\ step2 = 2 /\ threshold_km = 5000 /\ max_catalog = 1
    /\ include_collision_probability = TRUE
    /\ now = 0 /\ tgrid = << >> /\ user_r = << >> /\ user_v = << >>
    /\ idx = 0 /\ ephem = << >> /\ dmins = << >> /\ relspeeds = << >>
    /\ tca_idx = 0 /\ results = << >>

(* relative velocities (m/s): the non-zero vectors of whole hundreds, each  *)
(* component at most MaxSpeed hundreds, whose norm is a whole number        *)
IsSquare(n) == ISqrt(n) * ISqrt(n) = n
Velocities ==
    { <<100 * x, 100 * y, 100 * z>> :
        <<x, y, z>> \in { w \in (-MaxSpeed..MaxSpeed) \X (-MaxSpeed..MaxSpeed)
                                   \X (-MaxSpeed..MaxSpeed) :
                            /\ w # <<0, 0, 0>>
                            /\ IsSquare(w[1] * w[1] + w[2] * w[2] + w[3] * w[3]) } }

InitPlane ==
    /\ at = "plane"
    /\ v_rel_assessed \in Velocities
    /\ plane_assessed = << >>
    /\ pc_assessed = None /\ level_assessed = "UNKNOWN"
    /\ advice_assessed = << >>
    /\ names_assessed = << >> /\ hbr_assessed = None
    /\ NoScan

(* probability.py line 218 applied to a relative velocity; the relative     *)
(* position does not enter the basis                                       *)
Plane ==
    /\ at = "plane"
    /\ \E o \in Offsets :
          plane_assessed' = compute_encounter_plane(o.dr, v_rel_assessed)
    /\ at' = "plane_done"
    /\ UNCHANGED <<args, now, tgrid, user_r, user_v, cand, results,
                   pc_assessed, level_assessed, advice_assessed,
                   v_rel_assessed, names_assessed, hbr_assessed>>

SpecPlane == InitPlane /\ [][Plane]_vars

(* ---------------- the hard body radius on its own ---------------------- *)
(* names as catalogs spell them: station and constellation keywords in     *)
(* upper, lower and mixed case, a name holding both kinds, a keyword       *)
(* inside a longer word, a keyword broken by a second space, names         *)
(* without keyword, the empty name                                         *)
RadiusNames ==
    { <<"I", "S", "S", " ", "(", "Z", "A", "R", "Y", "A", ")">>,
      <<"i", "s", "s">>,
      <<"T", "i", "a", "n", "g", "o", "n", "g">>,
      <<"S", "p", "a", "c", "e", " ", "S", "t", "a", "t", "i", "o", "n">>,
      <<"s", "p", "a", "c", "e", " ", " ", "s", "t", "a", "t", "i", "o", "n">>,
      <<"S", "T", "A", "R", "L", "I", "N", "K", "-", "1">>,
      <<"O", "n", "e", "W", "e", "b", "-", "0", "0", "1", "2">>,
      <<"k", "e", "p", "l", "e", "r", "-", "7">>,
      <<"S", "t", "a", "r", "l", "i", "n", "k", " ", "I", "s", "s">>,
      <<"m", "i", "s", "s", "i", "o", "n">>,
      <<"S", "A", "T">>,
      <<"c", "o", "s", "m", "o", "s", " ", "2", "2", "5", "1">>,
      <<>> }

InitRadius ==
    /\ at = "radius"
    /\ names_assessed \in RadiusNames \X RadiusNames
    /\ hbr_assessed = None
    /\ pc_assessed = None /\ level_assessed = "UNKNOWN"
    /\ advice_assessed = << >>
    /\ v_rel_assessed = <<0, 0, 0>> /\ plane_assessed = << >>
    /\ NoScan

(* probability.py line 178 applied to two names *)
Radius ==
    /\ at = "radius"
    /\ hbr_assessed' =
          estimate_hard_body_radius(names_assessed[1], names_assessed[2])
    /\ at' = "radius_done"
    /\ UNCHANGED <<args, now, tgrid, user_r, user_v, cand, results,
                   pc_assessed, level_assessed, advice_assessed,
                   v_rel_assessed, plane_assessed, names_assessed>>

SpecRadius == InitRadius /\ [][Radius]_vars

(* =============================== claims ================================ *)
Scanned == Prefix(catalog, max_catalog)
TleOk(tle) == tle.l1 = "1 " /\ tle.l2 = "2 "
Events == {results[i] : i \in 1..Len(results)}
HasPc(e) ==
    /\ "collision_probability" \in DOMAIN e
    /\ "pc_2d" \in DOMAIN e.collision_probability
    /\ e.collision_probability.pc_2d # None

(* the distance of the candidate under scan at sample k, from what the     *)
(* collaborator answered; a failed sample counts as infinite               *)
SampleDistance(k) ==
    IF ephem[k].e # 0 THEN Inf ELSE Norm3(Sub3(user_r[k], ephem[k].r))
SampleDistances == {SampleDistance(k) : k \in 1..Len(ephem)}
TrueMinimum == CHOOSE m \in SampleDistances : \A n \in SampleDistances : m <= n
GoodSamples == {k \in 1..Len(ephem) : ephem[k].e = 0}
GoodDistances == {Norm3(Sub3(user_r[k], ephem[k].r)) : k \in GoodSamples}
GoodMinimum == CHOOSE m \in GoodDistances : \A n \in GoodDistances : m <= n

(* the step that ends the scan of one candidate *)
CandidateDone == at = "samples" /\ at' = "catalog"
AppendsEventFor(i) ==
    /\ Len(results') = Len(results) + 1
    /\ SubSeq(results', 1, Len(results)) = results
    /\ results'[Len(results')].catalog_index = i

(* C1: a scanned candidate yields an event if and only if its true minimum *)
(* distance over all samples, failed samples counted as infinite, is       *)
(* strictly below threshold_km; a minimum equal to the threshold, or only  *)
(* failed samples, yields none.                                            *)
C1_StrictThreshold ==
    [][ CandidateDone =>
          IF TrueMinimum < threshold_km THEN AppendsEventFor(idx)
          ELSE results' = results ]_vars

C1_Witness ==
    /\ at = "returned"
    /\ Len(Scanned) = 2 /\ TleOk(Scanned[1]) /\ TleOk(Scanned[2])
    /\ Len(results) = 1
    /\ results[1].min_distance_km < threshold_km

(* C2: the returned list is sorted non-decreasing by min_distance_km, and  *)
(* events of equal min_distance_km keep their catalog order.               *)
C2_SortedStable ==
    at = "returned" =>
        \A i, j \in 1..Len(results) :
            i < j =>
              /\ results[i].min_distance_km <= results[j].min_distance_km
              /\ results[i].min_distance_km = results[j].min_distance_km
                    => results[i].catalog_index < results[j].catalog_index

C2_Witness ==
    /\ at = "returned"
    /\ Len(results) = 2
    /\ results[1].catalog_index > results[2].catalog_index
    /\ results[1].min_distance_km < results[2].min_distance_km

(* C3: no propagation failure aborts the scan: neither a sample of the     *)
(* primary, nor a sample of a candidate, nor the propagation at the        *)
(* closest approach ever raises out of screen_conjunctions.                *)
C3_PropagationNeverAborts ==
    [][ (at = "primary_samples" \/ at = "samples") => ~ (at' = "raised") ]_vars

(* C4: a failed sample of a candidate is recorded as an infinite distance  *)
(* and the scan goes on to the next sample; a candidate with failed        *)
(* samples and a successful sample below the threshold is promoted, with   *)
(* the minimum of its successful samples as min_distance_km.               *)
C4_FailedSampleIsInfinite ==
    /\ [] ( at = "samples" =>
              /\ Len(dmins) = Len(ephem)
              /\ \A k \in 1..Len(ephem) : ephem[k].e # 0 => dmins[k] = Inf )
    /\ [][ at = "samples" /\ Len(dmins) < Len(tgrid) =>
              at' = "samples" /\ Len(dmins') = Len(dmins) + 1 ]_vars
    /\ [][ ( /\ CandidateDone
             /\ GoodSamples # 1..Len(ephem)
             /\ \E k \in GoodSamples : SampleDistance(k) < threshold_km ) =>
              /\ AppendsEventFor(idx)
              /\ results'[Len(results')].min_distance_km = GoodMinimum ]_vars

C4_Witness ==
    /\ at = "samples"
    /\ Len(dmins) = 3 /\ Len(tgrid) = 3
    /\ dmins[1] = Inf /\ dmins[2] < threshold_km /\ dmins[3] = Inf

(* C5: a numerical failure inside the estimator (here the NaN of a zero    *)
(* relative velocity) shows on the event as an error marker in the         *)
(* collision_probability block with safety_level UNKNOWN, never as a       *)
(* probability with a level.                                               *)
NumericalFailure(e) ==
    /\ "collision_probability" \in DOMAIN e
    /\ "encounter_plane" \in DOMAIN e.collision_probability
    /\ e.collision_probability.encounter_plane.mu_2d[1] = NaN
C5_NumericalFailureIsMarked ==
    \A e \in Events :
        NumericalFailure(e) =>
            /\ "error" \in DOMAIN e.collision_probability
            /\ e.safety_level = "UNKNOWN"

(* C6: with a malformed primary element set the scan raises before any     *)
(* candidate is looked at and returns no events.                           *)
C6_MalformedPrimaryIsFatal ==
    /\ [] ( ~ TleOk(user_tle) =>
              at \in {"call", "primary", "raised"} /\ results = << >> )
    /\ [][ (at = "primary" /\ ~ TleOk(user_tle)) => (at' = "raised") ]_vars

C6_Witness ==
    /\ at = "raised"
    /\ ~ TleOk(user_tle)
    /\ IntOfHalves(step2) > 0
    /\ \E i \in 1..Len(Scanned) : TleOk(Scanned[i])

(* C7: a catalog object whose propagator cannot be constructed is skipped: *)
(* no event, no error, the scan moves to the next object with the events   *)
(* so far, the grid and the primary's samples untouched, and a             *)
(* constructible object is always sampled; every event belongs to a        *)
(* constructible object and keeps that object's catalog position.          *)
C7_MalformedCandidateIsDropped ==
    /\ [] ( \A e \in Events : TleOk(catalog[e.catalog_index + 1]) )
    /\ [][ at = "catalog" /\ idx < Len(Scanned) =>
              /\ results' = results /\ catalog' = catalog /\ tgrid' = tgrid
              /\ user_r' = user_r /\ user_v' = user_v
              /\ IF TleOk(catalog[idx + 1])
                 THEN at' = "samples" /\ idx' = idx
                 ELSE at' = "catalog" /\ idx' = idx + 1 ]_vars

C7_Witness ==
    /\ at = "returned"
    /\ Len(Scanned) = 2 /\ ~ TleOk(Scanned[1])
    /\ Len(results) = 1 /\ results[1].catalog_index = 1

(* C8: every event that carries a pc_2d value has 0 <= pc_2d <= 1.          *)
C8_ProbabilityInUnitInterval ==
    \A e \in Events :
        HasPc(e) => /\ 0 <= e.collision_probability.pc_2d
                    /\ e.collision_probability.pc_2d <= ONE

C8_Witness ==
    /\ at = "returned"
    /\ \E e \in Events : /\ HasPc(e) /\ NumericalFailure(e)
                         /\ e.collision_probability.pc_2d = 0
    /\ \E e \in Events : /\ HasPc(e)
                         /\ 0 < e.collision_probability.pc_2d
                         /\ e.collision_probability.pc_2d < ONE

(* C9: for every window > 0 and step > 0, non-integer and sub-second steps *)
(* included, the grid has floor(window / step) + 1 samples, starts at the  *)
(* invocation instant, and consecutive samples are step seconds apart.     *)
C9_GridLength ==
    at # "call" =>
        /\ Len(tgrid) = (window2 \div step2) + 1
        /\ tgrid[1] = now
        /\ \A i \in 1..(Len(tgrid) - 1) : 2 * (tgrid[i + 1] - tgrid[i]) = step2

(* C10: pc_2d > 1e-4 is CRITICAL, 1e-5 < pc_2d <= 1e-4 is HIGH,             *)
(* 1e-6 < pc_2d <= 1e-5 is MEDIUM, pc_2d <= 1e-6 is LOW; the values 1e-4,   *)
(* 1e-5 and 1e-6 themselves are HIGH, MEDIUM and LOW.                      *)
C10_StrictLevels ==
    at = "assessed" =>
        /\ pc_assessed > ONE \div 10000 => level_assessed = "CRITICAL"
        /\ (ONE \div 100000 < pc_assessed /\ pc_assessed <= ONE \div 10000)
              => level_assessed = "HIGH"
        /\ (ONE \div 1000000 < pc_assessed /\ pc_assessed <= ONE \div 100000)
              => level_assessed = "MEDIUM"
        /\ pc_assessed <= ONE \div 1000000 => level_assessed = "LOW"

C10_Witness ==
    /\ at = "assessed"
    /\ pc_assessed = ONE \div 10000
    /\ level_assessed = "HIGH"

(* C11: generate_maneuver_suggestions returns at most one suggestion,       *)
(* decided by pc_2d alone: out-of-plane with priority CRITICAL above 1e-4,  *)
(* along-track with priority HIGH in (1e-5, 1e-4], monitor with priority   *)
(* MEDIUM in (1e-6, 1e-5], none at or below 1e-6; so the priority equals   *)
(* the safety level and the list is empty exactly when the level is LOW.   *)
SuggestionIs(type, priority) ==
    /\ Len(advice_assessed) = 1
    /\ advice_assessed[1].type = type
    /\ advice_assessed[1].priority = priority
C11_SuggestionByProbability ==
    at = "assessed" =>
        /\ Len(advice_assessed) <= 1
        /\ pc_assessed > ONE \div 10000
              => SuggestionIs("out_of_plane_maneuver", "CRITICAL")
        /\ (ONE \div 100000 < pc_assessed /\ pc_assessed <= ONE \div 10000)
              => SuggestionIs("along_track_maneuver", "HIGH")
        /\ (ONE \div 1000000 < pc_assessed /\ pc_assessed <= ONE \div 100000)
              => SuggestionIs("monitor", "MEDIUM")
        /\ pc_assessed <= ONE \div 1000000 => advice_assessed = << >>
        /\ Len(advice_assessed) = 1
              => advice_assessed[1].priority = level_assessed
        /\ (advice_assessed = << >>) <=> (level_assessed = "LOW")

C11_Witness ==
    /\ at = "assessed"
    /\ pc_assessed = ONE \div 100000
    /\ SuggestionIs("monitor", "MEDIUM")

(* C12: the scan is deterministic in its arguments, the current time being *)
(* one of them: from one call state (primary, catalog and numeric          *)
(* parameters fixed) lines 58-59 can build one time grid only, so no       *)
(* clock is read behind the arguments.                                     *)
GridsOfCall == {TimeGrid(t, window2, step2) : t \in 0..MaxNow}
C12_ClockIsInjected ==
    at = "call" =>
        \A g1, g2 \in GridsOfCall :
            ( /\ ENABLED (BuildGrid /\ at' = "primary" /\ tgrid' = g1)
              /\ ENABLED (BuildGrid /\ at' = "primary" /\ tgrid' = g2) )
            => g1 = g2

(* C13: a candidate at zero separation from the primary at every sample    *)
(* (threshold_km > 0) is promoted, and the pc_2d of its event comes from   *)
(* the d == 0 branch (the projected mean is the origin) and is near 1      *)
(* (at least 0.99).                                                        *)
ZeroSeparation ==
    /\ Len(ephem) = Len(tgrid)
    /\ \A k \in 1..Len(ephem) : ephem[k].e = 0 /\ ephem[k].r = user_r[k]
LastEvent == results'[Len(results')]
C13_ZeroSeparationSaturates ==
    [][ (CandidateDone /\ ZeroSeparation /\ threshold_km > 0) =>
          /\ AppendsEventFor(idx)
          /\ HasPc(LastEvent) =>
                /\ LastEvent.collision_probability.encounter_plane.mu_2d = <<0, 0>>
                /\ LastEvent.collision_probability.pc_2d >= 99 * (ONE \div 100)
      ]_vars

(* C14: compute_encounter_plane crosses u with the Z axis unless           *)
(* |u.Z| >= 0.9, then with the X axis; for a non-zero relative velocity    *)
(* the cross product is non-zero and u, e1, e2 are unit vectors, pairwise  *)
(* orthogonal, with u x e1 = e2, all within the tolerance 1e-4.            *)
Tolerance == ONE \div 10000
Near(a, b) == Abs(a - b) <= Tolerance
ClaimedAxis(u) ==
    IF Abs(u[3]) >= 9 * (ONE \div 10) THEN <<ONE, 0, 0>> ELSE <<0, 0, ONE>>
C14_OrthonormalBasis ==
    at = "plane_done" =>
        LET u  == plane_assessed.u_hat
            e1 == plane_assessed.e1
            e2 == plane_assessed.e2
            c  == FCross3(u, e1)
        IN  /\ ~ HasNaN3(u) /\ ~ HasNaN3(e1) /\ ~ HasNaN3(e2)
            /\ FDot3(e1, ClaimedAxis(u)) = 0
            /\ Near(FDot3(u, u), ONE) /\ Near(FDot3(e1, e1), ONE)
            /\ Near(FDot3(e2, e2), ONE)
            /\ Near(FDot3(u, e1), 0) /\ Near(FDot3(u, e2), 0)
            /\ Near(FDot3(e1, e2), 0)
            /\ Near(c[1], e2[1]) /\ Near(c[2], e2[2]) /\ Near(c[3], e2[3])

C14_Witness ==
    /\ at = "plane_done"
    /\ v_rel_assessed = <<300, 400, 1200>>
    /\ plane_assessed.e1[1] = 0
    /\ plane_assessed.e1[2] > 0

(* C15: only the first max_catalog objects are scanned, in catalog order:  *)
(* every event has 0 <= catalog_index < max_catalog, catalog_index is the  *)
(* position of its object in the catalog as given, no object has two       *)
(* events, and the objects are visited in increasing position.             *)
C15_OnlyThePrefixIsScanned ==
    /\ idx <= max_catalog /\ idx <= Len(catalog)
    /\ at = "samples" => idx < max_catalog /\ idx < Len(catalog)
    /\ \A i \in 1..Len(results) :
          /\ 0 <= results[i].catalog_index
          /\ results[i].catalog_index < max_catalog
          /\ results[i].catalog_index < Len(catalog)
          /\ results[i].other_name = catalog[results[i].catalog_index + 1].name
          /\ at # "returned" => results[i].catalog_index < idx
    /\ \A i, j \in 1..Len(results) :
          i # j => results[i].catalog_index # results[j].catalog_index
    /\ at # "returned" =>
          \A i, j \in 1..Len(results) :
              i < j => results[i].catalog_index < results[j].catalog_index

C15_Witness ==
    /\ at = "returned"
    /\ Len(catalog) = 2 /\ max_catalog = 1
    /\ TleOk(catalog[1]) /\ TleOk(catalog[2])
    /\ Len(results) = 1 /\ results[1].catalog_index = 0

(* C16: once every sample of a candidate is recorded and at least one of   *)
(* them was propagated, tca_idx is the latest sample whose recorded        *)
(* distance equals min(dmins): the distance at tca_idx is that minimum, it *)
(* is finite with a relative speed that is not NaN, and no later sample    *)
(* has the same distance, wherever the failed samples fall.  While the     *)
(* samples are being recorded the same holds of the samples so far.        *)
C16_BestIndexIsLatestMinimum ==
    (at = "samples" /\ GoodSamples # {}) =>
        /\ Len(dmins) = Len(ephem) /\ Len(relspeeds) = Len(ephem)
        /\ \A k \in 1..Len(dmins) : dmins[k] = SampleDistance(k)
        /\ tca_idx + 1 \in GoodSamples
        /\ dmins[tca_idx + 1] = SeqMin(dmins)
        /\ dmins[tca_idx + 1] = GoodMinimum
        /\ dmins[tca_idx + 1] # Inf
        /\ relspeeds[tca_idx + 1] # NaN
        /\ \A k \in 1..Len(dmins) :
              dmins[k] = SeqMin(dmins) => k <= tca_idx + 1

(* a failed sample first, then two samples at the same minimum distance *)
C16_Witness ==
    /\ at = "samples"
    /\ Len(dmins) = Len(tgrid) /\ Len(dmins) = 3
    /\ ephem[1].e # 0
    /\ dmins[2] = dmins[3] /\ dmins[2] # Inf
    /\ tca_idx = 2

(* C17: the min_distance_km of every event is the true minimum sampled     *)
(* distance of its candidate, hence strictly below threshold_km, also when *)
(* the analysis is merged into the event: the state derived again at the   *)
(* best index is the one of the scan at that sample, so the distance and   *)
(* the relative speed the analysis reports are those of the scan.          *)
C17_ReportedDistanceIsTrueMinimum ==
    [][ (CandidateDone /\ Len(results') = Len(results) + 1) =>
          /\ LastEvent.min_distance_km = TrueMinimum
          /\ LastEvent.min_distance_km = SeqMin(dmins)
          /\ LastEvent.min_distance_km < threshold_km
          /\ LastEvent.rel_speed_km_s = relspeeds[tca_idx + 1]
          /\ "relative_speed_km_s" \in DOMAIN LastEvent =>
                /\ include_collision_probability
                /\ LastEvent.relative_speed_km_s = LastEvent.rel_speed_km_s
                /\ LastEvent.min_distance_km =
                      Norm3(Sub3(user_r[tca_idx + 1], ephem[tca_idx + 1].r))
                /\ LastEvent.relative_speed_km_s =
                      Norm3(Sub3(user_v[tca_idx + 1], ephem[tca_idx + 1].v)) ]_vars

(* an event with the analysis merged in, of a candidate whose minimum is   *)
(* not at its last sample                                                  *)
C17_Witness ==
    /\ at = "catalog" /\ idx = 1 /\ Len(results) = 1
    /\ include_collision_probability
    /\ Len(tgrid) = 3
    /\ "relative_speed_km_s" \in DOMAIN results[1]
    /\ results[1].min_distance_km = 540
    /\ results[1].tca_utc = tgrid[2]

(* C18: with the probability analysis enabled every event carries a        *)
(* safety_level, and every event whose collision_probability block has an  *)
(* error marker has safety_level UNKNOWN and no maneuver suggestions, the  *)
(* event appended when the propagation at the closest approach fails       *)
(* included.                                                               *)
HasErrorMarker(e) ==
    /\ "collision_probability" \in DOMAIN e
    /\ "error" \in DOMAIN e.collision_probability
C18_ErrorEventsAreUnknown ==
    include_collision_probability =>
        \A e \in Events :
            /\ "safety_level" \in DOMAIN e
            /\ HasErrorMarker(e) =>
                  /\ e.safety_level = "UNKNOWN"
                  /\ "maneuver_suggestions" \notin DOMAIN e

(* C19: estimate_hard_body_radius classes each name on its own, whatever   *)
(* the case of its letters: 50 m for a station keyword, which wins over a  *)
(* constellation keyword, 3 m for a constellation keyword, 5 m otherwise;  *)
(* it returns the sum, always one of 6, 8, 10, 53, 55, 100, and the same   *)
(* for the two names swapped.                                              *)
Lower(c) ==
    IF \E i \in 1..26 : UpperLetters[i] = c
    THEN LowerLetters[CHOOSE i \in 1..26 : UpperLetters[i] = c]
    ELSE c
Folded(name) == [i \in 1..Len(name) |-> Lower(name[i])]
HasWord(name, words) == \E w \in words : Contains(w, Folded(name))
StationWords ==
    { <<"i", "s", "s">>,
      <<"s", "p", "a", "c", "e", " ", "s", "t", "a", "t", "i", "o", "n">>,
      <<"t", "i", "a", "n", "g", "o", "n", "g">> }
ConstellationWords ==
    { <<"s", "t", "a", "r", "l", "i", "n", "k">>,
      <<"o", "n", "e", "w", "e", "b">>,
      <<"k", "e", "p", "l", "e", "r">> }
ClaimedRadius(name) ==
    IF HasWord(name, StationWords) THEN 50
    ELSE IF HasWord(name, ConstellationWords) THEN 3
    ELSE 5
C19_RadiusByKeyword ==
    at = "radius_done" =>
        /\ hbr_assessed \in {6, 8, 10, 53, 55, 100}
        /\ hbr_assessed = ClaimedRadius(names_assessed[1])
                            + ClaimedRadius(names_assessed[2])
        /\ hbr_assessed =
              estimate_hard_body_radius(names_assessed[2], names_assessed[1])
        /\ hbr_assessed =
              estimate_hard_body_radius(Folded(names_assessed[1]),
                                        UpperStr(names_assessed[2]))

(* a name with both kinds of keyword, in mixed case, next to a constellation *)
(* name in lower case                                                      *)
C19_Witness ==
    /\ at = "radius_done"
    /\ names_assessed = << <<"S", "t", "a", "r", "l", "i", "n", "k", " ", "I", "s", "s">>,
                           <<"k", "e", "p", "l", "e", "r", "-", "7">> >>
    /\ hbr_assessed = 53

====
